---- MODULE Spec2Model ----
(***************************************************************************)
(* Model of flask_youtube_viz_app.py: the dataset loader (load_data), the  *)
(* module-level startup that binds the global DF, and the three routes     *)
(* /, /visualize and /plot_image.                                          *)
(*                                                                         *)
(* A DataFrame is a record [cols, rows]; a cell is a record [k, v, s]      *)
(* whose kind k is "num" (a number v), "str" (a text s) or "nan"           *)
(* (missing).  Python objects live in `heap`, so that a name bound to the  *)
(* same object as DF (no .copy()) would write through to DF.               *)
(***************************************************************************)
EXTENDS Integers, Sequences, FiniteSets, TLC

VARIABLES
    file,      \* the file named DATA_FILENAME, as found on disk
    started,   \* TRUE once the module-level startup code has run
    loaded,    \* the table startup bound to DF (history, for comparison)
    heap,      \* object id -> DataFrame: "DF" is the global, w is worker w's df
    pc,        \* per worker: "idle", "filtered" (after line 211), "done"
    req,       \* per worker: the request being served
    dfref,     \* per worker: the object the local name df is bound to
    resp,      \* per worker: the response produced
    lpc,       \* load_data's position
    encIdx,    \* load_data: index of the next encoding of the for loop
    fpos,      \* load_data: read offset of the open zip entry f
    attempts,  \* load_data: the read_csv calls made so far (history)
    result     \* load_data: the value returned or the exception raised

vars == <<file, started, loaded, heap, pc, req, dfref, resp,
          lpc, encIdx, fpos, attempts, result>>

serveVars == <<started, loaded, heap, pc, req, dfref, resp>>
loadVars  == <<lpc, encIdx, fpos, attempts, result>>

\* the threads of the server that serve requests
Workers == {"w1", "w2"}

----------------------------------------------------------------------------
(* Cells and tables *)

Num(n) == [k |-> "num", v |-> n, s |-> ""]
Str(t) == [k |-> "str", v |-> 0, s |-> t]
NaN    == [k |-> "nan", v |-> 0, s |-> ""]

\* The texts that parse as numbers, with their values.
NumText == [t \in {"1000", "500"} |-> IF t = "1000" THEN 1000 ELSE 500]

\* str(n) for the categoryId values of the datasets
IdText == [n \in {10, 24} |-> IF n = 10 THEN "10" ELSE "24"]

\* pd.DataFrame(): zero rows, zero columns
EmptyFrame == [cols |-> {}, rows |-> <<>>]

NumericCols == <<"view_count", "likes", "dislikes", "comment_count", "like_ratio">>

\* rows Music:1000, Music:2000, Gaming:500, every column numeric
Clean ==
    [cols |-> {"category_name", "view_count", "likes", "like_ratio", "publish_hour"},
     rows |-> <<
       [category_name |-> Str("Music"),  view_count |-> Num(1000), likes |-> Num(50),
        like_ratio |-> Num(5), publish_hour |-> Num(9)],
       [category_name |-> Str("Music"),  view_count |-> Num(2000), likes |-> Num(100),
        like_ratio |-> Num(5), publish_hour |-> Num(9)],
       [category_name |-> Str("Gaming"), view_count |-> Num(500),  likes |-> Num(10),
        like_ratio |-> Num(2), publish_hour |-> Num(23)] >>]

\* view_count holds a non-numeric text, so read_csv leaves the column as text
Dirty ==
    [cols |-> {"category_name", "view_count", "likes", "comment_count"},
     rows |-> <<
       [category_name |-> Str("Music"),  view_count |-> Str("1000"), likes |-> Num(50),
        comment_count |-> Num(7)],
       [category_name |-> Str("Music"),  view_count |-> Str("abc"),  likes |-> Num(100),
        comment_count |-> NaN],
       [category_name |-> Str("Gaming"), view_count |-> Str("500"),  likes |-> Num(10),
        comment_count |-> Num(1)] >>]

\* neither category_name nor categoryId
NoCategory ==
    [cols |-> {"view_count", "likes"},
     rows |-> <<
       [view_count |-> Num(1000), likes |-> Num(50)],
       [view_count |-> Num(500),  likes |-> Num(10)] >>]

\* categoryId but no category_name
OnlyId ==
    [cols |-> {"categoryId", "view_count", "publish_hour"},
     rows |-> <<
       [categoryId |-> Num(10), view_count |-> Num(1000), publish_hour |-> Num(0)],
       [categoryId |-> Num(24), view_count |-> Num(500),  publish_hour |-> Num(23)],
       [categoryId |-> Num(10), view_count |-> NaN,       publish_hour |-> Num(0)] >>]

\* a header line and no data rows
HeaderOnly == [cols |-> {"category_name", "view_count"}, rows |-> <<>>]

\* DataFrame.empty: any axis of length 0
IsEmpty(t) == t.cols = {} \/ Len(t.rows) = 0

----------------------------------------------------------------------------
(* Requests and responses *)

\* a query parameter `sample`: absent, an integer text, or a non-integer text
Absent     == [k |-> "absent", v |-> 0]
IntArg(n)  == [k |-> "int", v |-> n]
TextArg    == [k |-> "text", v |-> 0]

NoReq == [route |-> "", plot |-> "", category |-> "", sample |-> Absent]

NoResp ==
    [status |-> 0, mimetype |-> "", body |-> "", exc |-> "",
     ranked |-> <<>>, objsum |-> FALSE, n |-> -1, values |-> <<>>,
     hours |-> [h \in 0..23 |-> 0], corr |-> {},
     cats |-> <<>>, title |-> <<"", "">>,
     url |-> [plot |-> "", category |-> "", sample |-> 0]]

\* send_file(buf, mimetype='image/png') of a figure showing `body`
Png(body) == [NoResp EXCEPT !.status = 200, !.mimetype = "image/png", !.body = body]

\* the except branch, lines 275-279: a placeholder carrying the exception
ErrorPng(e) == [Png("error") EXCEPT !.exc = e]

\* an exception that leaves the view function: Flask answers 500
Unhandled(e) ==
    [NoResp EXCEPT !.status = 500, !.mimetype = "text/html", !.body = "unhandled", !.exc = e]

----------------------------------------------------------------------------
(* load_data *)

FileLen == 2

\* for enc in ('utf-8', 'utf-8-sig', 'latin1', 'cp1252')
Encodings == <<"utf-8", "utf-8-sig", "latin1", "cp1252">>

\* n.lower().endswith('.csv'), for the entry names of the archives below
Lower == [n \in {"data.csv", "DATA.CSV", "more.csv", "readme.txt"} |->
            IF n = "DATA.CSV" THEN "data.csv" ELSE n]
IsCsvName(n) == Lower[n] \in {"data.csv", "more.csv"}

Entry(n, t) == [name |-> n, table |-> t]

\* z.namelist() with each entry's content
Archives ==
    { <<>>,
      <<Entry("data.csv", Clean)>>,
      <<Entry("readme.txt", NoCategory), Entry("DATA.CSV", Clean)>>,
      <<Entry("readme.txt", Dirty)>>,
      <<Entry("data.csv", OnlyId), Entry("more.csv", Dirty)>> }

\* A file on disk: whether it exists, whether it starts with b'PK', its
\* entries when it is an archive, its table when it is plain text, and
\* which read_csv calls succeed on it (okEncs: the strict ones by encoding,
\* plainOk: the default one, lenientOk: the on_bad_lines='skip' one).
MkFile(e, z, a, t, ok, p, l) ==
    [exists |-> e, zip |-> z, entries |-> a, table |-> t,
     okEncs |-> ok, plainOk |-> p, lenientOk |-> l]

MissingFile == MkFile(FALSE, FALSE, <<>>, EmptyFrame, {}, FALSE, FALSE)

ZipFiles ==
    { MkFile(TRUE, TRUE, a, EmptyFrame, ok, FALSE, l) :
        a \in Archives, ok \in SUBSET {"utf-8", "utf-8-sig", "latin1", "cp1252"},
        l \in BOOLEAN }

PlainFiles ==
    { MkFile(TRUE, FALSE, <<>>, t, {}, p, l) :
        t \in {Clean, Dirty, HeaderOnly}, p \in BOOLEAN, l \in BOOLEAN }

LoadFiles == {MissingFile} \cup ZipFiles \cup PlainFiles

\* csv_names = [n for n in z.namelist() if n.lower().endswith('.csv')]
CsvNames(a) == SelectSeq(a, LAMBDA e : IsCsvName(e.name))

\* target = csv_names[0] if csv_names else z.namelist()[0]
Target(a) == IF CsvNames(a) # <<>> THEN CsvNames(a)[1] ELSE a[1]

\* f.seek(0)
SeekNone(cur, off) == cur
Seek(cur, off) == off

Returned(t) == [kind |-> "returned", table |-> t, exc |-> ""]
Raised(e)   == [kind |-> "raised", table |-> EmptyFrame, exc |-> e]
NoResult    == [kind |-> "none", table |-> EmptyFrame, exc |-> ""]

Attempt(enc, mode, start, ok) == [enc |-> enc, mode |-> mode, start |-> start, ok |-> ok]

InitLoad ==
    /\ file \in LoadFiles
    /\ started = FALSE
    /\ loaded = EmptyFrame
    /\ heap = [o \in ({"DF"} \cup Workers) |-> EmptyFrame]
    /\ pc = [w \in Workers |-> "idle"]
    /\ req = [w \in Workers |-> NoReq]
    /\ dfref = [w \in Workers |-> w]
    /\ resp = [w \in Workers |-> NoResp]
    /\ lpc = "exists"
    /\ encIdx = 1
    /\ fpos = 0
    /\ attempts = <<>>
    /\ result = NoResult

\* lines 133-134
LoadMissing ==
    /\ lpc = "exists"
    /\ ~file.exists
    /\ lpc' = "done"
    /\ result' = Raised("FileNotFoundError")
    /\ UNCHANGED <<file, encIdx, fpos, attempts>>
    /\ UNCHANGED serveVars

\* lines 137-143: sniff the header; open the archive and the target entry
LoadSniff ==
    /\ lpc = "exists"
    /\ file.exists
    /\ IF file.zip
         THEN IF file.entries = <<>>
                THEN /\ lpc' = "done"
                     /\ result' = Raised("IndexError")
                ELSE /\ lpc' = "zip"
                     /\ result' = result
         ELSE /\ lpc' = "plain"
              /\ result' = result
    /\ UNCHANGED <<file, encIdx, fpos, attempts>>
    /\ UNCHANGED serveVars

\* lines 144-146: one strict read_csv of the loop succeeds and is returned
ZipAttemptOk ==
    /\ lpc = "zip"
    /\ encIdx <= Len(Encodings)
    /\ Encodings[encIdx] \in file.okEncs
    /\ attempts' = Append(attempts, Attempt(Encodings[encIdx], "strict", fpos, TRUE))
    /\ fpos' = FileLen
    /\ result' = Returned(Target(file.entries).table)
    /\ lpc' = "done"
    /\ UNCHANGED <<file, encIdx>>
    /\ UNCHANGED serveVars

\* lines 144-148: one strict read_csv fails somewhere in the entry; rewind
ZipAttemptFail ==
    /\ lpc = "zip"
    /\ encIdx <= Len(Encodings)
    /\ Encodings[encIdx] \notin file.okEncs
    /\ attempts' = Append(attempts, Attempt(Encodings[encIdx], "strict", fpos, FALSE))
    /\ \E p \in 0..FileLen : fpos' = Seek(p, 0)
    /\ encIdx' = encIdx + 1
    /\ UNCHANGED <<file, lpc, result>>
    /\ UNCHANGED serveVars

\* lines 149-150: the loop is exhausted; lenient read under latin1
ZipLenient ==
    /\ lpc = "zip"
    /\ encIdx > Len(Encodings)
    /\ attempts' = Append(attempts,
                          Attempt("latin1", "lenient", Seek(fpos, 0), file.lenientOk))
    /\ fpos' = FileLen
    /\ result' = IF file.lenientOk THEN Returned(Target(file.entries).table)
                                   ELSE Raised("ParserError")
    /\ lpc' = "done"
    /\ UNCHANGED <<file, encIdx>>
    /\ UNCHANGED serveVars

\* lines 153-154
PlainAttemptOk ==
    /\ lpc = "plain"
    /\ file.plainOk
    /\ attempts' = Append(attempts, Attempt("default", "strict", 0, TRUE))
    /\ result' = Returned(file.table)
    /\ lpc' = "done"
    /\ UNCHANGED <<file, encIdx, fpos>>
    /\ UNCHANGED serveVars

\* lines 153-156
PlainLenient ==
    /\ lpc = "plain"
    /\ ~file.plainOk
    /\ attempts' = attempts \o <<Attempt("default", "strict", 0, FALSE),
                                 Attempt("latin1", "lenient", 0, file.lenientOk)>>
    /\ result' = IF file.lenientOk THEN Returned(file.table)
                                   ELSE Raised("ParserError")
    /\ lpc' = "done"
    /\ UNCHANGED <<file, encIdx, fpos>>
    /\ UNCHANGED serveVars

NextLoad ==
    \/ LoadMissing
    \/ LoadSniff
    \/ ZipAttemptOk
    \/ ZipAttemptFail
    \/ ZipLenient
    \/ PlainAttemptOk
    \/ PlainLenient

SpecLoad == InitLoad /\ [][NextLoad]_vars

----------------------------------------------------------------------------
(* Startup, lines 159-166 *)

RECURSIVE LoadZipFrom(_, _)
\* the for loop of lines 144-148 from its i-th encoding, then lines 149-150
LoadZipFrom(f, i) ==
    IF i > Len(Encodings)
      THEN IF f.lenientOk THEN Returned(Target(f.entries).table)
                          ELSE Raised("ParserError")
      ELSE IF Encodings[i] \in f.okEncs
             THEN Returned(Target(f.entries).table)
             ELSE LoadZipFrom(f, i + 1)

\* load_data(filename) as one call
LoadData(f) ==
    IF ~f.exists THEN Raised("FileNotFoundError")
    ELSE IF f.zip
      THEN IF f.entries = <<>> THEN Raised("IndexError") ELSE LoadZipFrom(f, 1)
      ELSE IF f.plainOk THEN Returned(f.table)
           ELSE IF f.lenientOk THEN Returned(f.table) ELSE Raised("ParserError")

\* .astype(str) of one cell
AsStr(c) ==
    IF c.k = "num" THEN Str(IdText[c.v])
    ELSE IF c.k = "nan" THEN Str("nan")
    ELSE c

\* lines 162-163: DF['category_name'] = DF['categoryId'].astype(str)
Derive(t) ==
    IF "category_name" \notin t.cols /\ "categoryId" \in t.cols
      THEN [cols |-> t.cols \cup {"category_name"},
            rows |-> [i \in 1..Len(t.rows) |->
                        [c \in t.cols \cup {"category_name"} |->
                           IF c = "category_name" THEN AsStr(t.rows[i]["categoryId"])
                                                  ELSE t.rows[i][c]]]]
      ELSE t

\* the value bound to DF by lines 160-166
StartupFrame(f) ==
    IF LoadData(f).kind = "returned" THEN Derive(LoadData(f).table) ELSE EmptyFrame

\* the files the server is started on
ServeFiles ==
    { MissingFile,
      MkFile(TRUE, FALSE, <<>>, Clean, {}, FALSE, FALSE),
      MkFile(TRUE, FALSE, <<>>, Clean, {}, TRUE, TRUE),
      MkFile(TRUE, FALSE, <<>>, Dirty, {}, FALSE, TRUE),
      MkFile(TRUE, FALSE, <<>>, NoCategory, {}, TRUE, TRUE),
      MkFile(TRUE, FALSE, <<>>, HeaderOnly, {}, TRUE, TRUE),
      MkFile(TRUE, TRUE, <<Entry("data.csv", OnlyId)>>, EmptyFrame, {"latin1"}, FALSE, TRUE) }

Init ==
    /\ file \in ServeFiles
    /\ started = FALSE
    /\ loaded = EmptyFrame
    /\ heap = [o \in ({"DF"} \cup Workers) |-> EmptyFrame]
    /\ pc = [w \in Workers |-> "idle"]
    /\ req = [w \in Workers |-> NoReq]
    /\ dfref = [w \in Workers |-> w]
    /\ resp = [w \in Workers |-> NoResp]
    /\ lpc = "exists"
    /\ encIdx = 1
    /\ fpos = 0
    /\ attempts = <<>>
    /\ result = NoResult

Startup ==
    /\ ~started
    /\ started' = TRUE
    /\ heap' = [heap EXCEPT !["DF"] = StartupFrame(file)]
    /\ loaded' = StartupFrame(file)
    /\ UNCHANGED <<file, pc, req, dfref, resp>>
    /\ UNCHANGED loadVars

----------------------------------------------------------------------------
(* Helpers of the routes *)

DefaultSample == 5000
TopN == 10

Categories == {"__all__", "Music", "Nope"}
PlotTypes  == {"views_dist", "top_categories", "likes_vs_views", "like_ratio",
               "publish_hour", "corr", "bogus"}
SampleArgs == {Absent, TextArg, IntArg(-1), IntArg(0), IntArg(2), IntArg(1000000)}

\* request.args.get('sample', 5000), before int()
SampleGiven(a) == IF a.k = "absent" THEN IntArg(DefaultSample) ELSE a

\* the order sorted() gives the category names of the datasets
CatOrder == <<"10", "24", "Gaming", "Music", "nan">>

\* the distinct non-missing values of category_name
CatSet(t) ==
    { t.rows[i]["category_name"].s :
        i \in { j \in 1..Len(t.rows) : t.rows[j]["category_name"].k = "str" } }

\* sorted(DF['category_name'].dropna().unique().tolist())
SortedCats(t) == SelectSeq(CatOrder, LAMBDA c : c \in CatSet(t))

\* DF[DF['category_name'] == category]
Filter(t, category) ==
    [cols |-> t.cols,
     rows |-> SelectSeq(t.rows, LAMBDA r : r["category_name"].k = "str"
                                           /\ r["category_name"].s = category)]

\* pd.to_numeric(cell, errors='coerce')
ToNumeric(c) ==
    IF c.k = "str"
      THEN IF c.s \in DOMAIN NumText THEN Num(NumText[c.s]) ELSE NaN
      ELSE c

IsNumericCol(c) == \E i \in 1..Len(NumericCols) : NumericCols[i] = c

\* lines 223-225
Coerce(t) ==
    [cols |-> t.cols,
     rows |-> [i \in 1..Len(t.rows) |->
                 [c \in t.cols |-> IF IsNumericCol(c) THEN ToNumeric(t.rows[i][c])
                                                     ELSE t.rows[i][c]]]]

\* the object .copy() returns: a new one, owned by the worker
SameObject(w) == "DF"
CopyRef(w) == w

RECURSIVE SumSeq(_)
SumSeq(q) == IF q = <<>> THEN 0 ELSE q[1] + SumSeq(Tail(q))

\* series.dropna() of column c, as the sequence of its numbers
DropNa(t, c) ==
    LET present == SelectSeq(t.rows, LAMBDA r : r[c].k = "num")
    IN  [i \in 1..Len(present) |-> present[i][c].v]

\* groupby('category_name')['view_count'].sum() for one group
GroupSum(t, cat) == SumSeq(DropNa(Filter(t, cat), "view_count"))

RECURSIVE SortDesc(_, _)
\* .sort_values(ascending=False) of the group sums
SortDesc(t, cs) ==
    IF cs = {} THEN <<>>
    ELSE LET best == CHOOSE c \in cs :
                       \A d \in cs : GroupSum(t, c) >= GroupSum(t, d)
         IN  <<[cat |-> best, total |-> GroupSum(t, best)]>> \o SortDesc(t, cs \ {best})

\* .head(n)
Head_(q, n) == SubSeq(q, 1, IF Len(q) < n THEN Len(q) ELSE n)

\* line 238, when view_count is a numeric column
Ranked(t) == Head_(SortDesc(t, CatSet(t)), TopN)

HasText(t, c) == \E i \in 1..Len(t.rows) : t.rows[i][c].k = "str"

Min(a, b) == IF a < b THEN a ELSE b

\* countplot(x='publish_hour', order=range(24))
HourCounts(t) ==
    [h \in 0..23 |->
       Cardinality({ i \in 1..Len(t.rows) :
                       t.rows[i]["publish_hour"].k = "num"
                       /\ t.rows[i]["publish_hour"].v = h })]

\* df[cols].corr(): each pair of columns over the rows where both are present
Corr(t) ==
    { [a |-> a, b |-> b,
       rows |-> { i \in 1..Len(t.rows) : t.rows[i][a].k = "num" /\ t.rows[i][b].k = "num" }] :
        a \in { c \in t.cols : IsNumericCol(c) },
        b \in { c \in t.cols : IsNumericCol(c) } }

\* lines 256-264
PublishHourNoCheck(df) ==
    IF "publish_hour" \in df.cols
      THEN {[Png("chart") EXCEPT !.hours = HourCounts(df)]}
      ELSE {ErrorPng("KeyError")}
PublishHour(df) ==
    IF "publish_hour" \in df.cols
      THEN {[Png("chart") EXCEPT !.hours = HourCounts(df)]}
      ELSE {Png("missing_col")}

\* lines 230-279: the responses the try block can end in, for the coerced
\* copy df, the global g and the parsed sample size n
Render(plot, df, g, n) ==
    CASE plot = "views_dist" ->
           IF "view_count" \notin df.cols THEN {ErrorPng("KeyError")}
           ELSE {[Png("chart") EXCEPT !.values = DropNa(df, "view_count")]}
      [] plot = "top_categories" ->
           IF "category_name" \notin g.cols \/ "view_count" \notin g.cols
             THEN {ErrorPng("KeyError")}
           ELSE IF HasText(g, "view_count")
             \* the sum of a text column is no number: the bar plot of it
             \* either raises or draws the concatenated texts
             THEN {ErrorPng("TypeError"), [Png("chart") EXCEPT !.objsum = TRUE]}
           ELSE {[Png("chart") EXCEPT !.ranked = Ranked(g)]}
      [] plot = "likes_vs_views" ->
           IF n < 0 THEN {ErrorPng("ValueError")}
           ELSE IF "view_count" \notin df.cols \/ "likes" \notin df.cols
             THEN {ErrorPng("ValueError")}
           ELSE {[Png("chart") EXCEPT !.n = Min(Len(df.rows), n)]}
      [] plot = "like_ratio" ->
           IF "like_ratio" \notin df.cols THEN {ErrorPng("KeyError")}
           ELSE {[Png("chart") EXCEPT !.values = DropNa(df, "like_ratio")]}
      [] plot = "publish_hour" -> PublishHour(df)
      [] plot = "corr" ->
           IF Corr(df) = {} THEN {ErrorPng("ValueError"), Png("chart")}
           ELSE {[Png("chart") EXCEPT !.corr = Corr(df)]}
      [] OTHER -> {Png("unknown")}

\* lines 186-194
Title(plot, category) ==
    CASE plot = "views_dist" ->
           <<"Views Distribution", IF category # "__all__" THEN category ELSE "All Categories">>
      [] plot = "top_categories" -> <<"Top Categories by Total Views", "">>
      [] plot = "likes_vs_views" -> <<"Likes vs Views", category>>
      [] plot = "like_ratio" -> <<"Like Ratio Distribution", category>>
      [] plot = "publish_hour" -> <<"Uploads by Hour", "">>
      [] plot = "corr" -> <<"Engagement Correlation Heatmap", "">>
      [] OTHER -> <<"Visualization", "">>

\* render_template('index.html', ...)
Page(cats, title, url) ==
    [NoResp EXCEPT !.status = 200, !.mimetype = "text/html", !.body = "page",
                   !.cats = cats, !.title = title, !.url = url]

DF == heap["DF"]

----------------------------------------------------------------------------
(* Routes *)

\* lines 169-174
Index(w) ==
    /\ started
    /\ pc[w] = "idle"
    /\ req' = [req EXCEPT ![w] = [NoReq EXCEPT !.route = "/"]]
    /\ resp' = [resp EXCEPT ![w] =
                  Page(IF "category_name" \in DF.cols THEN SortedCats(DF) ELSE <<>>,
                       NoResp.title, NoResp.url)]
    /\ pc' = [pc EXCEPT ![w] = "done"]
    /\ UNCHANGED <<file, started, loaded, heap, dfref>>
    /\ UNCHANGED loadVars

\* lines 177-199
Visualize(w) ==
    /\ started
    /\ pc[w] = "idle"
    /\ \E plot \in PlotTypes, category \in Categories, sample \in SampleArgs :
         /\ req' = [req EXCEPT ![w] = [route |-> "/visualize", plot |-> plot,
                                       category |-> category, sample |-> sample]]
         /\ resp' = [resp EXCEPT ![w] =
              IF SampleGiven(sample).k # "int" THEN Unhandled("ValueError")
              ELSE IF IsEmpty(DF)
                THEN [NoResp EXCEPT !.status = 500, !.mimetype = "text/plain",
                                    !.body = "not_loaded"]
              ELSE IF "category_name" \notin DF.cols THEN Unhandled("KeyError")
              ELSE Page(SortedCats(DF), Title(plot, category),
                        [plot |-> plot, category |-> category,
                         sample |-> SampleGiven(sample).v])]
    /\ pc' = [pc EXCEPT ![w] = "done"]
    /\ UNCHANGED <<file, started, loaded, heap, dfref>>
    /\ UNCHANGED loadVars

\* lines 202-211: read the arguments, bind df to the filtered copy
PlotImageBegin(w) ==
    /\ started
    /\ pc[w] = "idle"
    /\ \E plot \in PlotTypes, category \in Categories, sample \in SampleArgs :
         /\ req' = [req EXCEPT ![w] = [route |-> "/plot_image", plot |-> plot,
                                       category |-> category, sample |-> sample]]
         /\ IF SampleGiven(sample).k # "int"
              THEN /\ resp' = [resp EXCEPT ![w] = Unhandled("ValueError")]
                   /\ pc' = [pc EXCEPT ![w] = "done"]
                   /\ UNCHANGED <<heap, dfref>>
            ELSE IF category = "__all__"
              THEN /\ dfref' = [dfref EXCEPT ![w] = CopyRef(w)]
                   /\ heap' = [heap EXCEPT ![CopyRef(w)] = DF]
                   /\ pc' = [pc EXCEPT ![w] = "filtered"]
                   /\ UNCHANGED resp
            ELSE IF "category_name" \notin DF.cols
              THEN /\ resp' = [resp EXCEPT ![w] = Unhandled("KeyError")]
                   /\ pc' = [pc EXCEPT ![w] = "done"]
                   /\ UNCHANGED <<heap, dfref>>
            ELSE /\ dfref' = [dfref EXCEPT ![w] = CopyRef(w)]
                 /\ heap' = [heap EXCEPT ![CopyRef(w)] = Filter(DF, category)]
                 /\ pc' = [pc EXCEPT ![w] = "filtered"]
                 /\ UNCHANGED resp
    /\ UNCHANGED <<file, started, loaded>>
    /\ UNCHANGED loadVars

\* lines 213-286: the empty check, the coercion of df in place, the plot
PlotImageRender(w) ==
    /\ pc[w] = "filtered"
    /\ IF IsEmpty(heap[dfref[w]])
         THEN /\ resp' = [resp EXCEPT ![w] = Png("no_data")]
              /\ UNCHANGED heap
         ELSE /\ heap' = [heap EXCEPT ![dfref[w]] = Coerce(heap[dfref[w]])]
              /\ \E r \in Render(req[w].plot, heap'[dfref[w]], heap'["DF"],
                                 SampleGiven(req[w].sample).v) :
                   resp' = [resp EXCEPT ![w] = r]
    /\ pc' = [pc EXCEPT ![w] = "done"]
    /\ UNCHANGED <<file, started, loaded, req, dfref>>
    /\ UNCHANGED loadVars

\* the response is sent; the request's locals are dropped
Reply(w) ==
    /\ pc[w] = "done"
    /\ pc' = [pc EXCEPT ![w] = "idle"]
    /\ req' = [req EXCEPT ![w] = NoReq]
    /\ resp' = [resp EXCEPT ![w] = NoResp]
    /\ dfref' = [dfref EXCEPT ![w] = w]
    /\ heap' = [o \in DOMAIN heap |-> IF o = w /\ dfref[w] = w THEN EmptyFrame ELSE heap[o]]
    /\ UNCHANGED <<file, started, loaded>>
    /\ UNCHANGED loadVars

Next ==
    \/ Startup
    \/ \E w \in Workers : Index(w)
    \/ \E w \in Workers : Visualize(w)
    \/ \E w \in Workers : PlotImageBegin(w)
    \/ \E w \in Workers : PlotImageRender(w)
    \/ \E w \in Workers : Reply(w)

Spec == Init /\ [][Next]_vars

----------------------------------------------------------------------------
(* Properties *)

SampleMin == 100
SampleMax == 50000

ValidPlots == {"views_dist", "top_categories", "likes_vs_views", "like_ratio",
               "publish_hour", "corr"}

\* worker w has finished a /plot_image request whose sample is an integer
PlotDone(w) ==
    /\ pc[w] = "done"
    /\ req[w].route = "/plot_image"
    /\ req[w].sample.k # "text"

\* the rows of the Dataset a category selector selects (the Filtered View)
ViewRows(t, category) ==
    IF category = "__all__" THEN 1..Len(t.rows)
    ELSE IF "category_name" \notin t.cols THEN {}
    ELSE { i \in 1..Len(t.rows) : t.rows[i]["category_name"] = Str(category) }

Clamp(n) == IF n < SampleMin THEN SampleMin ELSE IF n > SampleMax THEN SampleMax ELSE n

RequestedSample(w) == IF req[w].sample.k = "absent" THEN 5000 ELSE req[w].sample.v

ImagePng(r) == r.status = 200 /\ r.mimetype = "image/png"

\* C1: every likes-vs-views request over a non-empty Filtered View samples
\* min(rows of the Filtered View, requested size clamped into [100, 50000]) rows.
C1_SampleClamped ==
    \A w \in Workers :
      ( /\ PlotDone(w)
        /\ req[w].plot = "likes_vs_views"
        /\ {"view_count", "likes"} \subseteq DF.cols
        /\ ViewRows(DF, req[w].category) # {} )
      => /\ resp[w].body = "chart"
         /\ LET rows == Cardinality(ViewRows(DF, req[w].category))
                c    == Clamp(RequestedSample(w))
            IN  resp[w].n = IF rows < c THEN rows ELSE c

\* the summed view_count of category c over all rows of t
TotalViews(t, c) ==
    LET idx == { i \in 1..Len(t.rows) :
                   t.rows[i]["category_name"] = Str(c) /\ t.rows[i]["view_count"].k = "num" }
        RECURSIVE Add(_)
        Add(S) == IF S = {} THEN 0
                  ELSE LET i == CHOOSE j \in S : TRUE
                       IN  t.rows[i]["view_count"].v + Add(S \ {i})
    IN  Add(idx)

\* q is the ranking of t: one entry per category, its total, descending, at most 10
IsRanking(t, q) ==
    /\ Len(q) <= 10
    /\ \A i \in 1..Len(q) : q[i].cat \in CatSet(t) /\ q[i].total = TotalViews(t, q[i].cat)
    /\ \A i, j \in 1..Len(q) : i < j => q[i].total >= q[j].total /\ q[i].cat # q[j].cat
    /\ Len(q) = IF Cardinality(CatSet(t)) < 10 THEN Cardinality(CatSet(t)) ELSE 10

\* C2: a top-categories request on a non-empty Dataset (with numeric view_count
\* and a category_name column) answers the ranking of the full Dataset, whatever
\* the category selector.
C2_TopCategoriesIgnoresCategory ==
    \A w \in Workers :
      ( /\ PlotDone(w)
        /\ req[w].plot = "top_categories"
        /\ ~IsEmpty(DF)
        /\ {"category_name", "view_count"} \subseteq DF.cols
        /\ ~HasText(DF, "view_count") )
      => /\ resp[w].body = "chart"
         /\ IsRanking(DF, resp[w].ranked)

\* C3: once startup has run, the Dataset is the table startup bound to DF, and
\* every request works on an object of its own.
C3_DatasetNeverChanges ==
    started => /\ DF = loaded
               /\ \A w \in Workers : dfref[w] # "DF"

\* a request holds a coerced copy that differs from the raw Dataset while
\* another request is between its filter and its plot
C3_Witness ==
    /\ started
    /\ HasText(DF, "view_count")
    /\ \E w, x \in Workers :
         /\ w # x
         /\ pc[w] = "done" /\ req[w].route = "/plot_image" /\ resp[w].body = "chart"
         /\ ~HasText(heap[dfref[w]], "view_count")
         /\ pc[x] = "filtered" /\ heap[dfref[x]] # DF

\* C4: after a failed load the Dataset is the empty table and no chart request
\* raises an unhandled exception.
C4_LoadFailureDegrades ==
    (started /\ (~file.exists \/ LoadData(file).kind = "raised"))
      => /\ DF = [cols |-> {}, rows |-> <<>>]
         /\ \A w \in Workers : PlotDone(w) => resp[w].body # "unhandled"

\* C5: a request of a valid chart kind whose category selector matches no row
\* of the Dataset answers the "no data" notice.
C5_EmptyViewNoData ==
    \A w \in Workers :
      ( /\ PlotDone(w)
        /\ req[w].plot \in ValidPlots
        /\ req[w].category # "__all__"
        /\ ViewRows(DF, req[w].category) = {} )
      => ImagePng(resp[w]) /\ resp[w].body = "no_data"

\* C6: a /plot_image request ends either in an image/png response or in a
\* plain-text server error, and in the server error exactly when the Dataset
\* is absent or empty.
C6_TwoOutcomes ==
    \A w \in Workers :
      PlotDone(w) =>
        LET err == resp[w].status >= 500
        IN  /\ ImagePng(resp[w]) \/ err
            /\ err <=> IsEmpty(DF)

\* C7: a request of an unrecognized chart kind answers the "unknown
\* visualization" notice.
C7_UnknownKindNotice ==
    \A w \in Workers :
      (PlotDone(w) /\ req[w].plot \notin ValidPlots)
        => ImagePng(resp[w]) /\ resp[w].body = "unknown"

\* the number of rows of the Filtered View uploaded at hour h
UploadsAt(t, category, h) ==
    Cardinality({ i \in ViewRows(t, category) : t.rows[i]["publish_hour"] = Num(h) })

C9_TopCategoriesCoerced ==
    \A w \in Workers :
      ( /\ PlotDone(w)
        /\ req[w].plot = "top_categories"
        /\ req[w].category = "__all__"
        /\ ~IsEmpty(DF)
        /\ {"category_name", "view_count"} \subseteq DF.cols )
      => /\ resp[w].body = "chart"
         /\ IsRanking(Coerce(DF), resp[w].ranked)

\* the entry load_data must read: the first one named *.csv, else the first
Selected(a) ==
    IF \E i \in 1..Len(a) : IsCsvName(a[i].name)
      THEN a[CHOOSE i \in 1..Len(a) :
               /\ IsCsvName(a[i].name)
               /\ \A j \in 1..(i - 1) : ~IsCsvName(a[j].name)]
      ELSE a[1]

\* C10: on an archive the read_csv calls are, in order, utf-8, utf-8-sig,
\* latin1, cp1252 and then the lenient latin1 one; each starts at offset 0;
\* none follows a call that succeeded; what is returned is the selected
\* entry as the first successful call read it.
C10_EncodingOrder ==
    file.zip =>
      LET order == <<"utf-8", "utf-8-sig", "latin1", "cp1252">>
          n == Len(attempts)
      IN  /\ n <= 5
          /\ \A i \in 1..n :
               /\ attempts[i].start = 0
               /\ i <= 4 => /\ attempts[i].mode = "strict"
                            /\ attempts[i].enc = order[i]
                            /\ attempts[i].ok = (order[i] \in file.okEncs)
               /\ i = 5 => /\ attempts[i].mode = "lenient"
                           /\ attempts[i].enc = "latin1"
               /\ i < n => ~attempts[i].ok
          /\ (lpc = "done" /\ result.kind = "returned") =>
               /\ n >= 1
               /\ attempts[n].ok
               /\ result.table = Selected(file.entries).table
          /\ (lpc = "done" /\ result.kind = "raised" /\ file.entries # <<>>) =>
               n = 5 /\ ~attempts[n].ok

\* the lenient call is reached after four failures and returns the entry
C10_Witness ==
    /\ file.zip
    /\ lpc = "done"
    /\ Len(attempts) = 5
    /\ result.kind = "returned"
    /\ Len(file.entries) = 2

====
